---------------------------- MODULE Spec2Model ----------------------------
(***************************************************************************)
(* valora: the layer/composition model (composition.rs), the double        *)
(* buffered render pipeline (gpu/render.rs) and the stroke/fill            *)
(* tessellation front end (gpu/tessellation.rs).                           *)
(***************************************************************************)
EXTENDS Integers, Sequences, FiniteSets, TLC

(***************************************************************************)
(* Bounds of the model.                                                    *)
(***************************************************************************)
\* frame indices are 0..MaxFrame
MaxFrame == 1
\* a Composition holds at most MaxLayers layers
MaxLayers == 3
\* a Vec handed to add / Layer::once holds at most MaxVec items
MaxVec == 2
\* Render::step plus Render::render calls of one session
MaxCalls == 3

\* stroke thicknesses are 1..MaxThickness, in units of 1.0
MaxThickness == 3
\* ellipse widths, heights and tolerances are 1..MaxSize
MaxSize == 2

Frames == 0..MaxFrame

(***************************************************************************)
(* Values.                                                                 *)
(***************************************************************************)
None == [tag |-> "None"]
Some(v) == [tag |-> "Some", v |-> v]

\* Shader::Default, Shader::Texture(_), Shader::Intermittent { src, predicate }.
\* The predicate closure is represented by the render_frame it captures.
ShaderDefault == [tag |-> "Default"]
ShaderTexture(tex) == [tag |-> "Texture", tex |-> tex]
ShaderIntermittent(src, render_frame) ==
    [tag |-> "Intermittent", src |-> src, predicate |-> render_frame]

\* predicate(current_frame) of an Intermittent shader: the closure body.
Predicate(shader, current_frame) == current_frame = shader.predicate

\* Layer::Mesh(mesh), Layer::ShadedMesh { shader, mesh }
LayerMesh(mesh) == [tag |-> "Mesh", mesh |-> mesh]
LayerShadedMesh(shader, mesh) ==
    [tag |-> "ShadedMesh", shader |-> shader, mesh |-> mesh]

\* LayerInput::Single(layer), LayerInput::Many(vec)
Single(layer) == [tag |-> "Single", layer |-> layer]
Many(ts) == [tag |-> "Many", ts |-> ts]

\* The scale of a mesh is a tween: a constant or a function of the frame.
Tween(scale, frame) ==
    IF scale.kind = "Constant" THEN scale.v ELSE scale.v * (frame + 1)

\* The meshes the caller builds: mesh 0 is Mesh::from(Rect::frame()), the
\* others are the caller's shapes, numbered in the order they are handed over.
MeshOf(id) ==
    [id |-> id,
     scale |-> IF id % 2 = 0 THEN [kind |-> "Constant", v |-> id + 1]
                             ELSE [kind |-> "Function", v |-> id]]
FrameMesh == MeshOf(0)

\* A texture the caller made before the session, for Shader::Texture.
UserTexture == "user"

(***************************************************************************)
(* composition.rs                                                          *)
(***************************************************************************)
\* A mutation of freeze_frame: the gate is off by one frame.
FreezeFrameLate(src, render_frame) ==
    IF src.tag = "Mesh"
    THEN LayerShadedMesh(ShaderIntermittent(ShaderDefault, render_frame + 1), src.mesh)
    ELSE LayerShadedMesh(ShaderIntermittent(src.shader, render_frame + 1), src.mesh)

\* Layer::freeze_frame
FreezeFrame(src, render_frame) ==
    IF src.tag = "Mesh"
    THEN LayerShadedMesh(ShaderIntermittent(ShaderDefault, render_frame), src.mesh)
    ELSE LayerShadedMesh(ShaderIntermittent(src.shader, render_frame), src.mesh)

\* impl From<Mesh> for Layer
LayerFromMesh(mesh) == LayerMesh(mesh)
\* impl From<S: Into<Shader>> for Layer
LayerFromShader(shader) == LayerShadedMesh(shader, FrameMesh)
\* impl From<(S, Mesh)> for Layer
LayerFromPair(shader, mesh) == LayerShadedMesh(shader, mesh)

\* impl From<T: Into<Layer>> for LayerInput
LayerInputFromLayer(layer) == Single(layer)
\* impl From<Vec<T>> for LayerInput: into_iter().map(Into::into).collect()
LayerInputFromVec(ts) == Many(ts)

\* A mutation of LayerInput::next: the Vec is drained from the front.
LayerInputNextFront(self) ==
    IF self.tag = "Single"
    THEN [output |-> Some(self.layer), self |-> Many(<<>>)]
    ELSE IF self.ts = <<>>
         THEN [output |-> None, self |-> Many(<<>>)]
         ELSE [output |-> Some(Head(self.ts)), self |-> Many(Tail(self.ts))]

\* <LayerInput as Iterator>::next: the output and the iterator left behind.
\* Vec::pop takes the LAST element.
LayerInputNext(self) ==
    IF self.tag = "Single"
    THEN [output |-> Some(self.layer), self |-> Many(<<>>)]
    ELSE IF self.ts = <<>>
         THEN [output |-> None, self |-> Many(<<>>)]
         ELSE [output |-> Some(self.ts[Len(self.ts)]),
               self |-> Many(SubSeq(self.ts, 1, Len(self.ts) - 1))]

\* Running an iterator to its end (what Vec::extend and collect do): the
\* items in the order next() hands them out.
RECURSIVE Drain(_)
Drain(input) ==
    LET r == LayerInputNext(input)
    IN  IF r.output = None THEN <<>> ELSE <<r.output.v>> \o Drain(r.self)

\* Layer::once
LayerOnce(src, render_frame) ==
    LET items == Drain(src)
    IN  [i \in 1..Len(items) |-> FreezeFrame(items[i], render_frame)]

\* Composition::add, on the layers field
CompositionAdd(self_layers, layer) == self_layers \o Drain(layer)

\* Composition::layers
CompositionLayers(self_layers) == self_layers

(***************************************************************************)
(* gpu/render.rs                                                           *)
(***************************************************************************)
\* GpuShader::produce: the GPU counterpart of a Shader keeps its variant, and
\* an Intermittent shader keeps its (shared) predicate.
RECURSIVE GpuShaderProduce(_)
GpuShaderProduce(shader) ==
    IF shader.tag = "Intermittent"
    THEN [tag |-> "Intermittent", src |-> GpuShaderProduce(shader.src),
          predicate |-> shader.predicate]
    ELSE IF shader.tag = "Texture"
         THEN [tag |-> "Texture", tex |-> shader.tex]
         ELSE [tag |-> "Default"]

\* GpuMesh::produce: the GPU buffer of a mesh, at the scale of frame 0.
GpuMeshProduce(mesh) == [id |-> mesh.id, scale |-> Tween(mesh.scale, 0)]

\* The shader-draw primitive issues the draw unless a gate around it is off.
RECURSIVE Issues(_, _)
Issues(shader, frame) ==
    IF shader.tag = "Intermittent"
    THEN Predicate(shader, frame) /\ Issues(shader.src, frame)
    ELSE TRUE

\* <GpuLayer as Factory<Layer>>::produce
GpuLayerProduce(spec) ==
    LET shader == IF spec.tag = "Mesh" THEN ShaderDefault ELSE spec.shader
        mesh == spec.mesh
    IN  [shader |-> GpuShaderProduce(shader),
         cached_mesh |-> GpuMeshProduce(mesh),
         src |-> mesh]

\* A mutation of GpuLayer::step: the scale accumulates from call to call.
GpuLayerStepAccumulate(self, frame) ==
    [self EXCEPT !.cached_mesh.scale = @ + Tween(self.src.scale, frame)]

\* GpuLayer::step
GpuLayerStep(self, frame) ==
    [self EXCEPT !.cached_mesh.scale = Tween(self.src.scale, frame)]

\* GpuLayer::render
GpuLayerRender(self) == [shader |-> self.shader, mesh |-> self.cached_mesh]

\* The two textures Buffer::produce allocates.
NewTextures == [k \in 0..1 |-> IF k = 0 THEN "t0" ELSE "t1"]

\* A mutation of Buffer::produce: the blitter samples target 1.
BufferProduceBack ==
    [targets |-> NewTextures,
     blitter |-> [shader |-> [tag |-> "Texture", tex |-> NewTextures[1]],
                  mesh |-> GpuMeshProduce(FrameMesh)]]

\* <Buffer as Factory<BufferSpec>>::produce
BufferProduce ==
    [targets |-> NewTextures,
     blitter |-> [shader |-> [tag |-> "Texture", tex |-> NewTextures[0]],
                  mesh |-> GpuMeshProduce(FrameMesh)]]

\* Buffer::blitter
BufferBlitter(self) == <<[shader |-> self.blitter.shader, mesh |-> self.blitter.mesh]>>

\* Buffer::front
BufferFront(self) == self.targets[0]

\* A mutation of Buffer::draw: the draw samples the surface it writes.
DrawSecondarySame(self) == self.targets[0]

\* Buffer::draw: the surface a draw writes, the texture it may sample, and
\* the source of the fill that follows it.
DrawTarget(self) == self.targets[0]
DrawSecondary(self) == self.targets[1]
FillSource(self) == self.targets[0]

\* A mutation of Buffer::draw: the fill lands on the surface it reads.
FillTargetFront(self) == self.targets[0]

\* Buffer::draw: the destination of the fill that follows a draw.
FillTarget(self) == self.targets[1]

\* A mutation of Buffer::draw: the shader is drawn for frame 0 whatever the
\* frame of the DrawCtx.
DrawFrameZero(c) == 0

\* Buffer::draw: the frame handed to shader.draw
DrawFrame(c) == c.frame

\* A mutation of Buffer::draw: the fill runs before the error is returned.
OnDrawErrFill(t, self) == [t EXCEPT ![self.targets[1]] = t[self.targets[0]]]

\* Buffer::draw: `?` returns the error of shader.draw at once, so the
\* textures t stay as the failed draw left them.
OnDrawErr(t, self) == t

\* Render::cmds
RenderCmds(self_layers) ==
    [i \in 1..Len(self_layers) |-> GpuLayerRender(self_layers[i])]

\* Render::step, on the layers field
RenderStepLayers(self_layers, frame) ==
    [i \in 1..Len(self_layers) |-> GpuLayerStep(self_layers[i], frame)]

\* What a draw that is issued leaves on its target surface.
Mark(cmd, frame, partial) ==
    [mesh |-> cmd.mesh.id, scale |-> cmd.mesh.scale, frame |-> frame,
     partial |-> partial]

(***************************************************************************)
(* gpu/tessellation.rs                                                     *)
(***************************************************************************)
\* const ELLIPSE_TOLERANCE: f32 = 0.00001, in units of 0.00001
ELLIPSE_TOLERANCE == 1

\* lyon's StrokeOptions::default(): a line width of 1.0 and a tolerance of
\* 0.1 (in units of 0.00001)
StrokeOptionsDefault == [line_width |-> 1, tolerance |-> 10000]
WithLineWidth(options, w) == [options EXCEPT !.line_width = w]
WithTolerance(options, t) == [options EXCEPT !.tolerance = t]

\* Option::unwrap_or
UnwrapOr(opt, d) == IF opt = None THEN d ELSE opt.v

\* Colorer::color: a pure function of the point
Color(point) == (point[1] + point[2]) % 2

\* Tessellation::from_fill_buffer and Tessellation::from_stroke_buffer: one
\* coloured vertex and one normal per buffer vertex, the indices as they are.
FromBuffer(vbuf) ==
    [vertices |-> [k \in 1..Len(vbuf.vertices) |->
                      [point |-> vbuf.vertices[k].position,
                       color |-> Color(vbuf.vertices[k].position)]],
     normals |-> [k \in 1..Len(vbuf.vertices) |->
                      <<vbuf.vertices[k].normal[1], vbuf.vertices[k].normal[2], 0>>],
     indices |-> vbuf.indices]

\* <Ellipse as Tessellate>::tessellate_fill: the basic_shapes call it makes
EllipseFillCall(self) ==
    IF self.height # None
    THEN [fn |-> "fill_ellipse", radii |-> <<self.width, self.height.v>>,
          rotation |-> self.rotation,
          tolerance |-> UnwrapOr(self.tolerance, ELLIPSE_TOLERANCE)]
    ELSE [fn |-> "fill_circle", radius |-> self.width,
          tolerance |-> UnwrapOr(self.tolerance, ELLIPSE_TOLERANCE)]

\* <Ellipse as Tessellate>::tessellate_stroke: the basic_shapes call it makes
EllipseStrokeCall(self, thickness) ==
    IF self.height # None
    THEN [fn |-> "stroke_ellipse", radii |-> <<self.width, self.height.v>>,
          rotation |-> self.rotation,
          options |-> WithTolerance(WithLineWidth(StrokeOptionsDefault, thickness),
                                    UnwrapOr(self.tolerance, ELLIPSE_TOLERANCE))]
    ELSE [fn |-> "stroke_circle", radius |-> self.width,
          options |-> WithTolerance(WithLineWidth(StrokeOptionsDefault, thickness),
                                    UnwrapOr(self.tolerance, ELLIPSE_TOLERANCE))]

\* <P: Poly as Tessellate>::tessellate_fill: the basic_shapes call it makes
PolyFillCall(self) == [fn |-> "fill_polyline", points |-> self.vertices]

\* <P: Poly as Tessellate>::tessellate_stroke: the basic_shapes call it makes;
\* thickness is not used
PolyStrokeCall(self, thickness) ==
    [fn |-> "stroke_polyline", points |-> self.vertices, closed |-> TRUE,
     options |-> StrokeOptionsDefault]

\* Tessellate::tessellate_stroke, by the kind of the shape
StrokeCall(self, thickness) ==
    IF self.kind = "Ellipse" THEN EllipseStrokeCall(self, thickness)
    ELSE PolyStrokeCall(self, thickness)

\* Tessellate::tessellate_fill, by the kind of the shape
FillCall(self) ==
    IF self.kind = "Ellipse" THEN EllipseFillCall(self) ELSE PolyFillCall(self)

\* The shapes handed to the tessellation engine.
Ellipses ==
    [kind : {"Ellipse"}, width : 1..MaxSize,
     height : {None} \cup {Some(h) : h \in 1..MaxSize}, rotation : {0},
     tolerance : {None} \cup {Some(t) : t \in 1..MaxSize}]
Polys ==
    {[kind |-> "Poly", vertices |-> <<<<0, 0>>, <<1, 0>>, <<0, 1>>>>],
     [kind |-> "Poly", vertices |-> <<<<0, 0>>, <<1, 0>>, <<1, 1>>, <<0, 1>>>>]}
Shapes == Ellipses \cup Polys

\* The vertex buffers the tessellator may hand back.
VertexBuffers ==
    {[vertices |-> <<>>, indices |-> <<>>],
     [vertices |-> <<[position |-> <<0, 0>>, normal |-> <<0, 1>>],
                     [position |-> <<1, 0>>, normal |-> <<1, 0>>],
                     [position |-> <<0, 1>>, normal |-> <<1, 1>>]>>,
      indices |-> <<0, 1, 2>>]}

VARIABLES
    pc,         \* "compose", "idle", "draw", "fill", "aborted" or "dead"
    calls,      \* the LayerInputs handed to Composition::add, in call order
    layers,     \* Composition::layers
    once,       \* the Vec Layer::once returned (with its arguments), until added
    gpuLayers,  \* Render::layers
    buffer,     \* Render::buffer
    tex,        \* the contents of the buffer's two textures
    ctx,        \* the DrawCtx of the render call in progress
    cur,        \* the position of Buffer::draw's loop in ctx.cmds
    result,     \* what the last Render::render call returned
    log,        \* the draws and fills of the last Render::render call
    steps,      \* the frames of the Render::step calls made so far
    painted,    \* what every draw issued so far has left, in draw order
    tess,       \* the shape being tessellated and the tessellator call made
    failed,     \* whether a shader draw has failed in this session
    ncalls      \* the step and render calls made so far

vars == <<pc, calls, layers, once, gpuLayers, buffer, tex, ctx, cur, result, log,
          steps, painted, failed, ncalls, tess>>
composeVars == <<calls, layers, once>>
renderVars == <<gpuLayers, buffer, tex, ctx, cur, result, log, steps, painted,
                failed, ncalls>>

Init ==
    /\ pc = "compose"
    /\ calls = <<>>
    /\ layers = <<>>
    /\ once = None
    /\ gpuLayers = <<>>
    /\ buffer = None
    /\ tex = <<>>
    /\ ctx = None
    /\ cur = 0
    /\ result = None
    /\ log = <<>>
    /\ steps = <<>>
    /\ painted = <<>>
    /\ failed = FALSE
    /\ ncalls = 0
    /\ tess = None

\* Every layer handed to add so far, in the order the caller wrote them.
RECURSIVE Flatten(_)
Flatten(cs) ==
    IF cs = <<>> THEN <<>>
    ELSE (IF Head(cs).tag = "Single" THEN <<Head(cs).layer>> ELSE Head(cs).ts)
         \o Flatten(Tail(cs))
Added == Flatten(calls)

\* What the caller can hand over as the item at position p of the scene: a
\* bare mesh or a (shader, mesh) pair.
Items(p) ==
    {LayerFromMesh(MeshOf(p)),
     LayerFromPair(ShaderTexture(UserTexture), MeshOf(p))}

\* A single item may also be a bare shader, drawn on the full-frame rectangle.
SingleItems(p) == Items(p) \cup {LayerFromShader(ShaderTexture(UserTexture))}

\* The Vecs of n items the caller can build starting at position p.
RECURSIVE Vecs(_, _)
Vecs(p, n) ==
    IF n = 0 THEN {<<>>}
    ELSE UNION {{Append(v, it) : it \in Items(p + n - 1)} : v \in Vecs(p, n - 1)}

CanAdd(n) ==
    /\ pc = "compose"
    /\ once = None
    /\ Len(calls) < MaxLayers
    /\ Len(layers) + n <= MaxLayers

\* composition.add(item)
AddSingle ==
    \E item \in SingleItems(Len(Added) + 1) :
        LET input == LayerInputFromLayer(item)
        IN  /\ CanAdd(1)
            /\ layers' = CompositionAdd(layers, input)
            /\ calls' = Append(calls, input)
            /\ UNCHANGED <<pc, once, renderVars, tess>>

\* composition.add(vec![...])
AddVec ==
    \E n \in 0..MaxVec :
        \E v \in Vecs(Len(Added) + 1, n) :
            LET input == LayerInputFromVec(v)
            IN  /\ CanAdd(n)
                /\ layers' = CompositionAdd(layers, input)
                /\ calls' = Append(calls, input)
                /\ UNCHANGED <<pc, once, renderVars, tess>>

\* Layer::once(src, render_frame), src a single item or a Vec: the Vec it
\* returns is held by the caller
Once ==
    \E n \in 1..MaxVec, f \in Frames :
        \E src \in {LayerInputFromVec(v) : v \in Vecs(Len(Added) + 1, n)}
                   \cup (IF n = 1
                         THEN {LayerInputFromLayer(it) : it \in Items(Len(Added) + 1)}
                         ELSE {}) :
            /\ CanAdd(n)
            /\ once' = Some([src |-> src, render_frame |-> f,
                             out |-> LayerOnce(src, f)])
            /\ UNCHANGED <<pc, calls, layers, renderVars, tess>>

\* composition.add(v), v the Vec Layer::once returned
AddOnce ==
    /\ pc = "compose"
    /\ once # None
    /\ LET input == LayerInputFromVec(once.v.out)
       IN  /\ layers' = CompositionAdd(layers, input)
           /\ calls' = Append(calls, input)
    /\ once' = None
    /\ UNCHANGED <<pc, renderVars, tess>>

\* Render::produce(RenderSpec { composition, .. }, gpu) succeeds
Produce ==
    /\ pc = "compose"
    /\ once = None
    /\ LET ls == CompositionLayers(layers)
       IN  gpuLayers' = [k \in 1..Len(ls) |-> GpuLayerProduce(ls[k])]
    /\ buffer' = BufferProduce
    /\ tex' = [t \in {NewTextures[0], NewTextures[1]} |-> <<>>]
    /\ pc' = "idle"
    /\ UNCHANGED <<composeVars, ctx, cur, result, log, steps, painted, failed, ncalls,
                   tess>>

\* Render::produce fails: a shader, a mesh or a texture could not be built
ProduceErr ==
    /\ pc = "compose"
    /\ once = None
    /\ pc' = "dead"
    /\ UNCHANGED <<composeVars, renderVars, tess>>

\* Render::step(frame)
Step ==
    /\ pc = "idle"
    /\ ncalls < MaxCalls
    /\ \E frame \in Frames :
        /\ gpuLayers' = RenderStepLayers(gpuLayers, frame)
        /\ steps' = Append(steps, frame)
    /\ ncalls' = ncalls + 1
    /\ UNCHANGED <<pc, composeVars, buffer, tex, ctx, cur, result, log, painted,
                   failed, tess>>

\* Render::render(library, frame): the DrawCtx is built and Buffer::draw entered
Render ==
    /\ pc = "idle"
    /\ ncalls < MaxCalls
    /\ \E frame \in Frames :
        ctx' = [frame |-> frame, cmds |-> RenderCmds(gpuLayers)]
    /\ ncalls' = ncalls + 1
    /\ log' = <<>>
    /\ IF gpuLayers = <<>>
       THEN /\ pc' = "idle"
            /\ cur' = 0
            /\ result' = [tag |-> "Ok", v |-> BufferBlitter(buffer)]
       ELSE /\ pc' = "draw"
            /\ cur' = 1
            /\ result' = None
    /\ UNCHANGED <<composeVars, gpuLayers, buffer, tex, steps, painted, failed, tess>>

\* Buffer::draw: shader.draw(...) of command cur returns Ok
Draw ==
    /\ pc = "draw"
    /\ LET cmd == ctx.cmds[cur]
           w == DrawTarget(buffer)
           r == DrawSecondary(buffer)
           on == Issues(cmd.shader, DrawFrame(ctx))
       IN  /\ tex' = IF on
                     THEN [tex EXCEPT ![w] = Append(@, Mark(cmd, DrawFrame(ctx), FALSE))]
                     ELSE tex
           /\ painted' = IF on
                         THEN Append(painted, Mark(cmd, DrawFrame(ctx), FALSE))
                         ELSE painted
           /\ log' = Append(log, [op |-> "draw", cmd |-> cur, target |-> w,
                                  secondary |-> r, read |-> tex[r],
                                  issued |-> on, ok |-> TRUE])
    /\ pc' = "fill"
    /\ UNCHANGED <<composeVars, gpuLayers, buffer, ctx, cur, result, steps, failed,
                   ncalls, tess>>

\* Buffer::draw: shader.draw(...) of command cur returns Err, and `?` returns it
\* to the caller of Render::render, whose frame loop ends on the error
DrawErr ==
    /\ pc = "draw"
    /\ LET cmd == ctx.cmds[cur]
           w == DrawTarget(buffer)
           r == DrawSecondary(buffer)
           on == Issues(cmd.shader, DrawFrame(ctx))
       IN  /\ \E partial \in BOOLEAN :
                tex' = OnDrawErr(IF on /\ partial
                                 THEN [tex EXCEPT ![w] =
                                          Append(@, Mark(cmd, DrawFrame(ctx), TRUE))]
                                 ELSE tex,
                                 buffer)
           /\ log' = Append(log, [op |-> "draw", cmd |-> cur, target |-> w,
                                  secondary |-> r, read |-> tex[r],
                                  issued |-> on, ok |-> FALSE])
    /\ result' = [tag |-> "Err"]
    /\ failed' = TRUE
    /\ pc' = "aborted"
    /\ UNCHANGED <<composeVars, gpuLayers, buffer, ctx, cur, steps, painted, ncalls,
                   tess>>

\* Buffer::draw: surfaces[0].fill(&surfaces[1], Linear), then the next command
\* or, after the last one, Ok(self.blitter()).  Surface::fill copies the whole
\* of self onto its argument; the two targets have the same size, so the
\* filtered copy leaves the argument equal to self.
Fill ==
    /\ pc = "fill"
    /\ LET from == FillSource(buffer)
           to == FillTarget(buffer)
       IN  /\ tex' = [tex EXCEPT ![to] = tex[from]]
           /\ log' = Append(log, [op |-> "fill", cmd |-> cur, source |-> from,
                                  target |-> to])
    /\ IF cur = Len(ctx.cmds)
       THEN /\ pc' = "idle"
            /\ result' = [tag |-> "Ok", v |-> BufferBlitter(buffer)]
            /\ cur' = cur
       ELSE /\ pc' = "draw"
            /\ result' = result
            /\ cur' = cur + 1
    /\ UNCHANGED <<composeVars, gpuLayers, buffer, ctx, steps, painted, failed, ncalls,
                   tess>>

NextCompose ==
    \/ AddSingle
    \/ AddVec
    \/ Once
    \/ AddOnce

NextRender ==
    \/ Produce
    \/ ProduceErr
    \/ Step
    \/ Render
    \/ Draw
    \/ DrawErr
    \/ Fill

Next ==
    \/ NextCompose
    \/ NextRender

\* The composition is built, rendered and stepped: the whole session.
Spec == Init /\ [][Next]_vars

\* Building a Composition only.
SpecCompose == Init /\ [][NextCompose]_vars

\* The add calls a scene of the render sessions is built from, at position p
\* with room for n more layers: a bare mesh, a Vec of two bare meshes, or a
\* bare mesh gated to one frame by Layer::once.
SceneCalls(p, n) ==
    {LayerInputFromLayer(LayerFromMesh(MeshOf(p)))}
    \cup {LayerInputFromVec(LayerOnce(LayerInputFromLayer(LayerFromMesh(MeshOf(p))), f)) :
            f \in Frames}
    \cup (IF n >= 2
          THEN {LayerInputFromVec(<<LayerFromMesh(MeshOf(p)), LayerFromMesh(MeshOf(p + 1))>>)}
          ELSE {})

RECURSIVE Scenes(_, _)
Scenes(p, n) ==
    {<<>>} \cup
    (IF n = 0 THEN {}
     ELSE UNION {{<<c>> \o rest :
                    rest \in Scenes(p + Len(Flatten(<<c>>)), n - Len(Flatten(<<c>>)))} :
                 c \in SceneCalls(p, n)})

\* Composition::new() followed by the add calls cs
RECURSIVE Build(_)
Build(cs) ==
    IF cs = <<>> THEN <<>>
    ELSE CompositionAdd(Build(SubSeq(cs, 1, Len(cs) - 1)), cs[Len(cs)])

\* A composition built by a scene's add calls, about to be produced.
InitRender ==
    /\ pc = "compose"
    /\ calls \in Scenes(1, MaxLayers)
    /\ layers = Build(calls)
    /\ once = None
    /\ gpuLayers = <<>>
    /\ buffer = None
    /\ tex = <<>>
    /\ ctx = None
    /\ cur = 0
    /\ result = None
    /\ log = <<>>
    /\ steps = <<>>
    /\ painted = <<>>
    /\ failed = FALSE
    /\ ncalls = 0
    /\ tess = None

\* Producing a Render from a built composition, stepping and rendering it.
SpecRender == InitRender /\ [][NextRender]_vars

\* shape.tessellate_fill(colorer) returns Ok
TessellateFill ==
    /\ tess # None
    /\ \E vbuf \in VertexBuffers :
        tess' = [shape |-> tess.shape, op |-> "fill", thickness |-> 0,
                 call |-> FillCall(tess.shape),
                 out |-> [tag |-> "Ok", v |-> FromBuffer(vbuf)]]
    /\ UNCHANGED <<pc, composeVars, renderVars>>

\* polygon.tessellate_fill(colorer): fill_polyline fails and `?` returns it
TessellateFillErr ==
    /\ tess # None
    /\ tess.shape.kind = "Poly"
    /\ tess' = [shape |-> tess.shape, op |-> "fill", thickness |-> 0,
                call |-> FillCall(tess.shape), out |-> [tag |-> "Err"]]
    /\ UNCHANGED <<pc, composeVars, renderVars>>

\* shape.tessellate_stroke(thickness, colorer)
TessellateStroke ==
    /\ tess # None
    /\ \E thickness \in 1..MaxThickness, vbuf \in VertexBuffers :
        tess' = [shape |-> tess.shape, op |-> "stroke", thickness |-> thickness,
                 call |-> StrokeCall(tess.shape, thickness),
                 out |-> [tag |-> "Ok", v |-> FromBuffer(vbuf)]]
    /\ UNCHANGED <<pc, composeVars, renderVars>>

NextTess ==
    \/ TessellateFill
    \/ TessellateFillErr
    \/ TessellateStroke

\* A shape about to be tessellated.
InitTess ==
    /\ pc = "compose"
    /\ calls = <<>>
    /\ layers = <<>>
    /\ once = None
    /\ gpuLayers = <<>>
    /\ buffer = None
    /\ tex = <<>>
    /\ ctx = None
    /\ cur = 0
    /\ result = None
    /\ log = <<>>
    /\ steps = <<>>
    /\ painted = <<>>
    /\ failed = FALSE
    /\ ncalls = 0
    /\ \E shape \in Shapes :
        tess = [shape |-> shape, op |-> "none", thickness |-> 0, call |-> None,
                out |-> None]

\* Tessellating a shape, filled or stroked.
SpecTess == InitTess /\ [][NextTess]_vars
(***************************************************************************)
(* The claims.                                                             *)
(***************************************************************************)
\* The layers a LayerInput holds, in the order the caller wrote them.
SrcItems(input) == IF input.tag = "Single" THEN <<input.layer>> ELSE input.ts

\* C1: after every sequence of add calls, each given a single layer or a Vec
\* of layers, layers() is the concatenation of the added layers in the order
\* they were added: nothing lost, duplicated or reordered.
C1_LayersInAddOrder == CompositionLayers(layers) = Added

\* C2: Layer::once(source, render_frame) turns every layer of source into a
\* ShadedMesh with the layer's own mesh whose shader is Intermittent around
\* the layer's original shader (Default for a bare Mesh), and whose predicate
\* is true for a frame exactly when the frame is render_frame.
C2_OnceGatesEveryLayer ==
    once # None =>
        LET src == SrcItems(once.v.src)
            out == once.v.out
            f == once.v.render_frame
        IN  /\ Len(out) = Len(src)
            /\ \E p \in Permutations(1..Len(src)) :
                \A k \in 1..Len(out) :
                    /\ out[k].tag = "ShadedMesh"
                    /\ out[k].mesh = src[p[k]].mesh
                    /\ out[k].shader.tag = "Intermittent"
                    /\ out[k].shader.src =
                         (IF src[p[k]].tag = "Mesh" THEN ShaderDefault
                          ELSE src[p[k]].shader)
                    /\ \A g \in 0..(MaxFrame + 1) :
                         Predicate(out[k].shader, g) <=> (g = f)

\* C2 witness: Layer::once has returned for a Vec of two layers, one a bare
\* Mesh and one a ShadedMesh, gated to a frame other than 0.
C2_Witness ==
    /\ once # None
    /\ Len(once.v.out) = 2
    /\ once.v.render_frame > 0
    /\ \E a, b \in 1..2 : /\ SrcItems(once.v.src)[a].tag = "Mesh"
                          /\ SrcItems(once.v.src)[b].tag = "ShadedMesh"

\* C3: after any sequence of Render::step calls, every layer's cached GPU
\* mesh scale is the scale tween of the mesh the layer was built from,
\* evaluated at the frame of the last step: the scale is not accumulated.
C3_ScaleIsTweenOfLastStep ==
    steps # <<>> =>
        /\ Len(gpuLayers) = Len(layers)
        /\ \A k \in 1..Len(gpuLayers) :
            /\ gpuLayers[k].src = layers[k].mesh
            /\ gpuLayers[k].cached_mesh.scale =
                 Tween(layers[k].mesh.scale, steps[Len(steps)])

\* C3 witness: step was called twice in direct succession with the same frame,
\* not frame 0, on a Render of two layers or more.
C3_Witness ==
    /\ Len(steps) >= 2
    /\ ncalls = Len(steps)
    /\ steps[Len(steps)] = steps[Len(steps) - 1]
    /\ steps[Len(steps)] > 0
    /\ Len(gpuLayers) >= 2

\* The meshes of the draws of the last render call, in the order drawn.
DrawnMeshes ==
    LET draws == SelectSeq(log, LAMBDA e : e.op = "draw")
    IN  [k \in 1..Len(draws) |-> ctx.cmds[draws[k].cmd].mesh.id]

\* C4: for Composition::new().add(mesh_a).add([mesh_b, mesh_c]), produced and
\* rendered, render processes exactly 3 layer draw commands, in the order
\* mesh_a, mesh_b, mesh_c.
C4_DrawsInAddOrder ==
    (/\ calls = <<LayerInputFromLayer(LayerFromMesh(MeshOf(1))),
                  LayerInputFromVec(<<LayerFromMesh(MeshOf(2)),
                                      LayerFromMesh(MeshOf(3))>>)>>
     /\ pc = "idle"
     /\ result # None
     /\ result.tag = "Ok")
    => DrawnMeshes = <<1, 2, 3>>

\* C5: a successful Render::render returns the Buffer's blitter command set:
\* one (shader, mesh) pair, the shader sampling buffer target 0, which is the
\* texture Buffer::front returns, and the mesh the full-frame rectangle.
C5_RenderReturnsBlitter ==
    (result # None /\ result.tag = "Ok") =>
        /\ Len(result.v) = 1
        /\ result.v[1].shader.tag = "Texture"
        /\ result.v[1].shader.tex = buffer.targets[0]
        /\ result.v[1].shader.tex = BufferFront(buffer)
        /\ result.v[1].mesh.id = FrameMesh.id

\* C5 witness: a render of three layers for a frame other than 0 has returned
\* Ok.
C5_Witness ==
    /\ result # None
    /\ result.tag = "Ok"
    /\ Len(gpuLayers) = 3
    /\ ctx.frame > 0

\* Layer k of the composition is gated by an Intermittent shader whose
\* predicate is false for the frame.
GatedOff(k, frame) ==
    /\ layers[k].tag = "ShadedMesh"
    /\ layers[k].shader.tag = "Intermittent"
    /\ ~Predicate(layers[k].shader, frame)

\* C6: while Render::render processes a layer gated by Layer::once to a frame
\* other than the one rendered, neither the (skipped) draw nor the fill after
\* it changes the contents of either buffer target.
C6_GatedLayerLeavesBuffer ==
    [][(pc \in {"draw", "fill"} /\ GatedOff(cur, ctx.frame)) => tex' = tex]_vars

\* C6 witness: a gated-off layer has just been processed (its draw was not
\* issued and its fill is done) on targets that already hold a composite.
C6_Witness ==
    /\ pc \in {"draw", "idle"}
    /\ Len(log) >= 2
    /\ log[Len(log)].op = "fill"
    /\ log[Len(log) - 1].op = "draw"
    /\ ~log[Len(log) - 1].issued
    /\ GatedOff(log[Len(log)].cmd, ctx.frame)
    /\ tex[buffer.targets[0]] # <<>>
    /\ tex[buffer.targets[1]] # <<>>

\* The marks a texture holds.
Marks(t) == {tex[t][k] : k \in 1..Len(tex[t])}

\* C7: the first failing shader draw aborts the frame: render returns the
\* error, the failing layer gets no fill, no later layer is drawn or filled,
\* and what the earlier layers of the frame drew stays in both targets.
C7_FirstErrorAborts ==
    pc = "aborted" =>
        /\ result = [tag |-> "Err"]
        /\ Len(log) = 2 * cur - 1
        /\ log[Len(log)].op = "draw"
        /\ log[Len(log)].cmd = cur
        /\ ~log[Len(log)].ok
        /\ tex[buffer.targets[1]] = log[Len(log)].read
        /\ \A j \in 1..(Len(log) - 1) :
            /\ log[j].cmd < cur
            /\ log[j].op = "draw" => log[j].ok
            /\ (log[j].op = "draw" /\ log[j].issued) =>
                 /\ Mark(ctx.cmds[log[j].cmd], ctx.frame, FALSE)
                      \in Marks(buffer.targets[0])
                 /\ Mark(ctx.cmds[log[j].cmd], ctx.frame, FALSE)
                      \in Marks(buffer.targets[1])

\* C7 witness: the draw of a middle layer failed after writing part of its
\* output, and an earlier layer of the frame had been drawn.
C7_Witness ==
    /\ pc = "aborted"
    /\ cur >= 2
    /\ cur < Len(ctx.cmds)
    /\ log[1].issued
    /\ tex[buffer.targets[0]] # tex[buffer.targets[1]]

\* C8: tessellate_stroke(thickness, colorer) hands the stroke tessellator a
\* line width equal to thickness for ellipses, circles and polygons alike, and
\* asks for polygon strokes to be closed.
C8_StrokeWidthIsThickness ==
    (tess # None /\ tess.op = "stroke") =>
        /\ tess.call.options.line_width = tess.thickness
        /\ tess.shape.kind = "Poly" => tess.call.closed

\* The draws of log entries j.. that were issued and returned Ok.
IssuedFrom(j) ==
    Cardinality({m \in j..Len(log) :
                    log[m].op = "draw" /\ log[m].issued /\ log[m].ok})

\* C9: within one render call the layers are processed in the order of
\* Render's layer sequence; each is drawn into target 0 with target 1 as the
\* secondary input, then target 0 is copied into target 1 before the next
\* draw; so every draw, the first of a later frame too, reads a composite
\* that holds all earlier draws.
C9_DrawThenFillInLayerOrder ==
    ctx # None =>
        /\ Len(ctx.cmds) = Len(layers)
        /\ \A k \in 1..Len(ctx.cmds) : ctx.cmds[k].mesh.id = layers[k].mesh.id
        /\ pc = "draw" => /\ Len(log) = 2 * (cur - 1)
                          /\ tex[buffer.targets[1]] = painted
        /\ pc = "fill" => Len(log) = 2 * cur - 1
        /\ \A j \in 1..Len(log) :
            IF j % 2 = 1
            THEN /\ log[j].op = "draw"
                 /\ log[j].cmd = (j + 1) \div 2
                 /\ log[j].target = buffer.targets[0]
                 /\ log[j].secondary = buffer.targets[1]
                 /\ log[j].read = SubSeq(painted, 1, Len(painted) - IssuedFrom(j))
            ELSE /\ log[j].op = "fill"
                 /\ log[j].cmd = j \div 2
                 /\ log[j].source = buffer.targets[0]
                 /\ log[j].target = buffer.targets[1]

\* C9 witness: in a later frame, the second layer is about to be drawn, the
\* first layer of this frame having read the composite of the frame before.
C9_Witness ==
    /\ pc = "draw"
    /\ cur = 2
    /\ log[1].read # <<>>
    /\ log[1].issued
    /\ Len(painted) > Len(log[1].read)

\* C10: every draw of Buffer::draw writes one buffer target and samples the
\* other one: the target surface and the secondary input are never the same
\* texture, and the draw leaves the texture it samples as it was.
C10_DrawNeverReadsItsTarget ==
    [][pc = "draw" =>
        LET e == log'[Len(log')]
        IN  /\ e.op = "draw"
            /\ e.target # e.secondary
            /\ {e.target, e.secondary} = {buffer.targets[0], buffer.targets[1]}
            /\ tex'[e.secondary] = tex[e.secondary]]_vars

\* C10 witness: a draw has just been issued in a session whose targets hold
\* the draws of an earlier frame.
C10_Witness ==
    /\ pc = "fill"
    /\ log[Len(log)].issued
    /\ \E k \in 1..Len(painted) : painted[k].frame # ctx.frame

\* A sequence back to front.
Reverse(s) == [i \in 1..Len(s) |-> s[Len(s) + 1 - i]]

\* The layers l1, ..., lk each gated to frame f, in the order l1, ..., lk.
GatedInOrder(ls, f) == [i \in 1..Len(ls) |-> FreezeFrame(ls[i], f)]

\* C11: for any Vec of layers [l1, ..., lk] and any frame f, the Vec that
\* Layer::once(vec, f) returns lists the k gated layers in the reverse order
\* lk, ..., l1, and Composition::add of that Vec appends the k gated layers in
\* the order l1, ..., lk: the two back-to-front drains cancel.
C11_OnceThenAddKeepsOrder ==
    [][/\ once' # None =>
            once'.v.out = Reverse(GatedInOrder(SrcItems(once'.v.src),
                                               once'.v.render_frame))
       /\ (once # None /\ once' = None) =>
            CompositionLayers(layers') =
                CompositionLayers(layers)
                    \o GatedInOrder(SrcItems(once.v.src), once.v.render_frame)]_vars

\* C11 witness: the Vec Layer::once returned for two layers has been added,
\* and the two gated layers are the last two of the composition, the one the
\* caller wrote first before the one the caller wrote second.
C11_Witness ==
    /\ once = None
    /\ calls # <<>>
    /\ LET last == calls[Len(calls)]
       IN  /\ last.tag = "Many"
           /\ Len(last.ts) = 2
           /\ \A k \in 1..2 :
                /\ last.ts[k].tag = "ShadedMesh"
                /\ last.ts[k].shader.tag = "Intermittent"
           /\ last.ts[1].mesh.id > last.ts[2].mesh.id
           /\ Len(layers) >= 2
           /\ layers[Len(layers) - 1] = last.ts[2]
           /\ layers[Len(layers)] = last.ts[1]
           /\ layers[Len(layers) - 1].mesh.id < layers[Len(layers)].mesh.id

=============================================================================
